---- MODULE Spec2Model ----
(***************************************************************************)
(* Toy blockchain "B" (src/src/main.rs): a Blockchain value behind one     *)
(* Arc<Mutex<..>>, shared by the command loop of main and the minting      *)
(* thread of start_minting.                                                *)
(*                                                                         *)
(* The two threads are modelled with a program counter each.  Every        *)
(* statement that runs while the mutex is held is a step of its own, so    *)
(* the states inside mint_block (queue drained, balances half updated,     *)
(* block not yet pushed) are states of the model.                          *)
(***************************************************************************)
EXTENDS Integers, Sequences, FiniteSets, TLC

\* ------------------------------------------------------------------ bounds

\* The integers whose numerals are typed on the command line.
Numbers == -1..1
\* At most MaxIntents transfer commands are accepted over a run.
MaxIntents == 2
\* Readings of the wall clock, in seconds since the epoch.  No operation
\* reads a Block's timestamp back, so one reading is enough.
Clock == {1000}

\* Account ids typed on the command line.
Ids == {"A", "B"}

\* ------------------------------------------------------- Option<T>, parse

None == <<>>
Some(x) == <<x>>

\* str::parse::<i64>: Some(n) for a decimal numeral, None for anything else.
parse_i64(tok) ==
    IF \E n \in Numbers : ToString(n) = tok
    THEN Some(CHOOSE n \in Numbers : ToString(n) = tok)
    ELSE None

\* Result::unwrap_or
unwrap_or(opt, default) == IF opt = None THEN default ELSE opt[1]

\* --------------------------------------------------------------- messages

MsgExists == "Account already exists!"
MsgCreated == "Account created successfully"
MsgQueued == "Transaction queued and will be confirmed in the next block."
MsgInsufficient == "Insufficient funds."
MsgNotFound == "One or both accounts not found."
MsgBalance == "Balance of"
MsgAccountNotFound == "Account not found."
MsgMinted == "New block minted with confirmed transactions."
MsgSkipped == "No transactions to confirm. Skipping block minting."
MsgInvalid == "Invalid command or arguments."
MsgPrompt == "Enter a command (create-account, transfer, balance, exit):"
MsgNothing == ""

\* ------------------------------------------------------------ input lines

NumToks == {ToString(n) : n \in Numbers}
\* A token parse::<i64> rejects.
BadNum == "x"
AmountToks == NumToks \cup {BadNum}

CreateLines == {<<"create-account", id, t>> : id \in Ids, t \in AmountToks}
TransferLines == {<<"transfer", f, t, a>> : f \in Ids, t \in Ids, a \in AmountToks}
BalanceLines == {<<"balance", id>> : id \in Ids}
ExitLines == {<<"exit">>}
\* Wrong token counts, an unknown command word, the empty line.
MalformedLines ==
    { <<>>, <<"mint">>, <<"balance">>, <<"transfer", "A", "B">>,
      <<"create-account", "A">>, <<"create-account", "A", "1", "1">> }
Lines == CreateLines \cup TransferLines \cup BalanceLines \cup ExitLines
             \cup MalformedLines

\* ------------------------------------------------------------------ state

VARIABLES
    accounts,              \* Blockchain.accounts: id -> Account
    chain,                 \* Blockchain.chain: sequence of Block
    pending_transactions,  \* Blockchain.pending_transactions
    gate,                  \* the Mutex: "free", "main" or "timer"
    pcM,                   \* command loop: "read", "exec", "unlock", "done"
    args,                  \* command loop: the tokens of the line read
    out,                   \* command loop: what this iteration printed last
    pcT,                   \* minting thread: "sleep", "mint", "apply", "push",
                           \*   "unlock"
    block,                 \* mint_block's local Block
    idx,                   \* mint_block's position in `for tx in &block.transactions`
    outT,                  \* minting thread: what this tick printed
    opening,               \* history: id -> balance reported as created
    submitted              \* history: the transfers reported as queued, in order

ledger == <<accounts, chain, pending_transactions>>
vars == <<accounts, chain, pending_transactions, gate, pcM, args, out,
          pcT, block, idx, outT, opening, submitted>>

NoBlock == [transactions |-> <<>>, timestamp |-> 0]

\* ------------------------------------------------------------- Blockchain

\* HashMap::contains_key
contains_key(acc, id) == id \in DOMAIN acc

\* Fault: create_account without the contains_key test.
create_account_overwrite(acc, id, balance) ==
    [accounts |-> (id :> [id |-> id, balance |-> balance]) @@ acc,
     msg |-> IF contains_key(acc, id) THEN MsgExists ELSE MsgCreated]

\* Fault: create_account building a fresh map that holds the new account only.
create_account_replace(acc, id, balance) ==
    IF contains_key(acc, id)
    THEN [accounts |-> acc, msg |-> MsgExists]
    ELSE [accounts |-> (id :> [id |-> id, balance |-> balance]),
          msg |-> MsgCreated]

\* Blockchain::create_account
create_account(acc, id, balance) ==
    IF contains_key(acc, id)
    THEN [accounts |-> acc, msg |-> MsgExists]
    ELSE [accounts |-> acc @@ (id :> [id |-> id, balance |-> balance]),
          msg |-> MsgCreated]

\* Fault: transfer pushing the intent on the not-found path as well.
transfer_queue_missing(acc, pend, from, to, amount) ==
    IF contains_key(acc, from) /\ contains_key(acc, to)
    THEN IF acc[from].balance >= amount
         THEN [pending |-> Append(pend, [from |-> Some(from), to |-> to,
                                         amount |-> amount]),
               msg |-> MsgQueued]
         ELSE [pending |-> pend, msg |-> MsgInsufficient]
    ELSE [pending |-> Append(pend, [from |-> Some(from), to |-> to,
                                    amount |-> amount]),
          msg |-> MsgNotFound]

\* Fault: transfer without the balance test.
transfer_no_funds_test(acc, pend, from, to, amount) ==
    IF contains_key(acc, from) /\ contains_key(acc, to)
    THEN [pending |-> Append(pend, [from |-> Some(from), to |-> to,
                                    amount |-> amount]),
          msg |-> MsgQueued]
    ELSE [pending |-> pend, msg |-> MsgNotFound]

\* Fault: transfer refusing a source that already has an intent pending.
transfer_one_pending(acc, pend, from, to, amount) ==
    IF contains_key(acc, from) /\ contains_key(acc, to)
    THEN IF /\ acc[from].balance >= amount
            /\ \A i \in 1..Len(pend) : pend[i].from # Some(from)
         THEN [pending |-> Append(pend, [from |-> Some(from), to |-> to,
                                         amount |-> amount]),
               msg |-> MsgQueued]
         ELSE [pending |-> pend, msg |-> MsgInsufficient]
    ELSE [pending |-> pend, msg |-> MsgNotFound]

\* Fault: transfer testing the sender's presence only.
transfer_from_only(acc, pend, from, to, amount) ==
    IF contains_key(acc, from)
    THEN IF acc[from].balance >= amount
         THEN [pending |-> Append(pend, [from |-> Some(from), to |-> to,
                                         amount |-> amount]),
               msg |-> MsgQueued]
         ELSE [pending |-> pend, msg |-> MsgInsufficient]
    ELSE [pending |-> pend, msg |-> MsgNotFound]

\* Fault: transfer putting the new intent at the head of the queue.
transfer_front(acc, pend, from, to, amount) ==
    IF contains_key(acc, from) /\ contains_key(acc, to)
    THEN IF acc[from].balance >= amount
         THEN [pending |-> <<[from |-> Some(from), to |-> to,
                              amount |-> amount]>> \o pend,
               msg |-> MsgQueued]
         ELSE [pending |-> pend, msg |-> MsgInsufficient]
    ELSE [pending |-> pend, msg |-> MsgNotFound]

\* Blockchain::transfer
transfer(acc, pend, from, to, amount) ==
    IF contains_key(acc, from) /\ contains_key(acc, to)
    THEN IF acc[from].balance >= amount
         THEN [pending |-> Append(pend, [from |-> Some(from), to |-> to,
                                         amount |-> amount]),
               msg |-> MsgQueued]
         ELSE [pending |-> pend, msg |-> MsgInsufficient]
    ELSE [pending |-> pend, msg |-> MsgNotFound]

\* Blockchain::get_balance
get_balance(acc, id) ==
    IF contains_key(acc, id)
    THEN [msg |-> MsgBalance, balance |-> Some(acc[id].balance)]
    ELSE [msg |-> MsgAccountNotFound, balance |-> None]

\* Fault: mint_block with its emptiness test negated away, it always skips.
has_pending_never(pend) == FALSE

\* Fault: mint_block without its emptiness test.
has_pending_always(pend) == TRUE

\* mint_block's test `!self.pending_transactions.is_empty()`
has_pending(pend) == pend # <<>>

\* Fault: a drain that takes the first intent only.
drain_first(pend) ==
    [taken |-> IF pend = <<>> THEN <<>> ELSE <<Head(pend)>>,
     rest |-> IF pend = <<>> THEN <<>> ELSE Tail(pend)]

\* Fault: a copy in place of the drain, the queue keeps its intents.
drain_keep(pend) == [taken |-> pend, rest |-> pend]

\* `self.pending_transactions.drain(..).collect()`: what the Block gets and
\* what stays in the queue.
drain(pend) == [taken |-> pend, rest |-> <<>>]

\* Fault: the sender is never debited.
debit_none(acc, id, amount) == acc

\* `from_account.balance -= tx.amount`
debit(acc, id, amount) ==
    [acc EXCEPT ![id].balance = @ - amount]

\* `to_account.balance += tx.amount`
credit(acc, id, amount) ==
    [acc EXCEPT ![id].balance = @ + amount]

\* Fault: the loop body credits the receiver twice.
apply_tx_credit_twice(acc, tx) ==
    LET debited == IF tx.from # None THEN debit(acc, tx.from[1], tx.amount)
                                     ELSE acc
    IN  credit(credit(debited, tx.to, tx.amount), tx.to, tx.amount)

\* One iteration of mint_block's `for tx in &block.transactions`
apply_tx(acc, tx) ==
    LET debited == IF tx.from # None THEN debit(acc, tx.from[1], tx.amount)
                                     ELSE acc
    IN  credit(debited, tx.to, tx.amount)

\* Fault: a lock that never waits.
can_lock_always(g) == TRUE

\* Mutex::lock returns once no thread holds the mutex.
can_lock(g) == g = "free"

\* What one println! shows: the text and, for a balance, the number.
Printed(msg, balance) == [msg |-> msg, balance |-> balance]

\* `args.get(0)`
first_arg(a) == IF Len(a) = 0 THEN None ELSE Some(a[1])

\* Fault: the create-account arm guarded by `args.len() >= 3`.
IsCreateAtLeast(a) == first_arg(a) = Some("create-account") /\ Len(a) >= 3

\* The arms of main's `match args.get(0)`, tried in order.
IsCreate(a) == first_arg(a) = Some("create-account") /\ Len(a) = 3
IsTransfer(a) == first_arg(a) = Some("transfer") /\ Len(a) = 4
IsBalance(a) == first_arg(a) = Some("balance") /\ Len(a) = 2
IsExit(a) ==
    /\ ~IsCreate(a) /\ ~IsTransfer(a) /\ ~IsBalance(a)
    /\ first_arg(a) = Some("exit")
IsInvalid(a) ==
    ~IsCreate(a) /\ ~IsTransfer(a) /\ ~IsBalance(a) /\ ~IsExit(a)

\* -------------------------------------------------------------------- Init

\* Blockchain::new, start_minting just called, main at its first read_line.
Init ==
    /\ accounts = <<>>
    /\ chain = <<>>
    /\ pending_transactions = <<>>
    /\ gate = "free"
    /\ pcM = "read"
    /\ args = <<>>
    /\ out = Printed(MsgPrompt, None)
    /\ pcT = "sleep"
    /\ block = NoBlock
    /\ idx = 0
    /\ outT = MsgNothing
    /\ opening = <<>>
    /\ submitted = <<>>

timerVars == <<pcT, block, idx, outT>>
mainVars == <<pcM, args, out>>
history == <<opening, submitted>>

\* ------------------------------------------------------- the command loop

\* `io::stdin().read_line(&mut input)`, the split into tokens and
\* `blockchain.lock().unwrap()`.  The tokens are private to the command loop
\* until the lock is taken, so the line is drawn at the step that takes it:
\* pcM = "read" is the whole stretch from the prompt to the lock.
MainReadLine ==
    /\ pcM = "read"
    /\ can_lock(gate)
    /\ \E line \in Lines :
          /\ IsTransfer(line) => Len(submitted) < MaxIntents
          /\ args' = line
    /\ gate' = "main"
    /\ pcM' = "exec"
    /\ UNCHANGED <<ledger, out, timerVars, history>>

\* arm `Some(&"create-account") if args.len() == 3`
MainCreateAccount ==
    /\ pcM = "exec"
    /\ IsCreate(args)
    /\ LET id == args[2]
           balance == unwrap_or(parse_i64(args[3]), 0)
           r == create_account(accounts, id, balance)
       IN  /\ accounts' = r.accounts
           /\ out' = Printed(r.msg, None)
           /\ opening' = IF r.msg = MsgCreated THEN opening @@ (id :> balance)
                                               ELSE opening
    /\ pcM' = "unlock"
    /\ UNCHANGED <<chain, pending_transactions, gate, args, timerVars, submitted>>

\* Fault: the transfer arm debits the sender as soon as the intent is queued.
MainTransferEager ==
    /\ pcM = "exec"
    /\ IsTransfer(args)
    /\ LET from == args[2]
           to == args[3]
           amount == unwrap_or(parse_i64(args[4]), 0)
           r == transfer(accounts, pending_transactions, from, to, amount)
       IN  /\ pending_transactions' = r.pending
           /\ out' = Printed(r.msg, None)
           /\ accounts' = IF r.msg = MsgQueued
                           THEN debit(accounts, from, amount)
                           ELSE accounts
           /\ submitted' =
                 IF r.msg = MsgQueued
                 THEN Append(submitted, [from |-> Some(from), to |-> to,
                                         amount |-> amount])
                 ELSE submitted
    /\ pcM' = "unlock"
    /\ UNCHANGED <<chain, gate, args, timerVars, opening>>

\* arm `Some(&"transfer") if args.len() == 4`
MainTransfer ==
    /\ pcM = "exec"
    /\ IsTransfer(args)
    /\ LET from == args[2]
           to == args[3]
           amount == unwrap_or(parse_i64(args[4]), 0)
           r == transfer(accounts, pending_transactions, from, to, amount)
       IN  /\ pending_transactions' = r.pending
           /\ out' = Printed(r.msg, None)
           /\ submitted' =
                 IF r.msg = MsgQueued
                 THEN Append(submitted, [from |-> Some(from), to |-> to,
                                         amount |-> amount])
                 ELSE submitted
    /\ pcM' = "unlock"
    /\ UNCHANGED <<accounts, chain, gate, args, timerVars, opening>>

\* arm `Some(&"balance") if args.len() == 2`
MainBalance ==
    /\ pcM = "exec"
    /\ IsBalance(args)
    /\ LET r == get_balance(accounts, args[2])
       IN  out' = Printed(r.msg, r.balance)
    /\ pcM' = "unlock"
    /\ UNCHANGED <<ledger, gate, args, timerVars, history>>

\* arm `Some(&"exit") => break`: the guard is dropped on the way out.
\* main then returns; until the process is gone the minting thread may
\* still take steps, so its actions stay enabled.
MainExit ==
    /\ pcM = "exec"
    /\ IsExit(args)
    /\ gate' = "free"
    /\ pcM' = "done"
    /\ UNCHANGED <<ledger, args, out, timerVars, history>>

\* arm `_ => println!("Invalid command or arguments.")`
MainInvalid ==
    /\ pcM = "exec"
    /\ IsInvalid(args)
    /\ out' = Printed(MsgInvalid, None)
    /\ pcM' = "unlock"
    /\ UNCHANGED <<ledger, gate, args, timerVars, history>>

\* Fault: the MutexGuard outlives the loop body, the lock is kept while the
\* command loop waits for the next line.
MainUnlockKeep ==
    /\ pcM = "unlock"
    /\ pcM' = "read"
    /\ args' = <<>>
    /\ out' = Printed(MsgPrompt, None)
    /\ UNCHANGED <<ledger, gate, timerVars, history>>

\* End of the loop body: the MutexGuard is dropped, the prompt is printed.
MainUnlock ==
    /\ pcM = "unlock"
    /\ gate' = "free"
    /\ pcM' = "read"
    /\ args' = <<>>
    /\ out' = Printed(MsgPrompt, None)
    /\ UNCHANGED <<ledger, timerVars, history>>

\* ----------------------------------------------------- the minting thread

\* current_timestamp(): whatever the wall clock reads.
current_timestamp == Clock

\* `thread::sleep(Duration::from_secs(10))` returns and
\* `blockchain.lock().unwrap()` takes the lock: pcT = "sleep" is the whole
\* stretch from the start of the sleep to the lock.
TimerLock ==
    /\ pcT = "sleep"
    /\ can_lock(gate)
    /\ gate' = "timer"
    /\ pcT' = "mint"
    /\ UNCHANGED <<ledger, mainVars, block, idx, outT, history>>

\* mint_block, queue not empty: `pending_transactions.drain(..).collect()`
\* into the new Block.
MintDrain ==
    /\ pcT = "mint"
    /\ has_pending(pending_transactions)
    /\ \E ts \in current_timestamp :
          block' = [transactions |-> drain(pending_transactions).taken,
                    timestamp |-> ts]
    /\ pending_transactions' = drain(pending_transactions).rest
    /\ idx' = 1
    /\ pcT' = IF Len(block'.transactions) = 0 THEN "push" ELSE "apply"
    /\ UNCHANGED <<accounts, chain, gate, mainVars, outT, history>>

\* mint_block, queue empty: the else branch.
MintSkip ==
    /\ pcT = "mint"
    /\ ~has_pending(pending_transactions)
    /\ outT' = MsgSkipped
    /\ pcT' = "unlock"
    /\ UNCHANGED <<ledger, gate, mainVars, block, idx, history>>

\* One iteration of `for tx in &block.transactions`.
MintApply ==
    /\ pcT = "apply"
    /\ accounts' = apply_tx(accounts, block.transactions[idx])
    /\ idx' = idx + 1
    /\ pcT' = IF idx = Len(block.transactions) THEN "push" ELSE "apply"
    /\ UNCHANGED <<chain, pending_transactions, gate, mainVars, block, outT,
                   history>>

\* Fault: the new Block replaces the chain.
MintPushReplace ==
    /\ pcT = "push"
    /\ chain' = <<block>>
    /\ block' = NoBlock
    /\ idx' = 0
    /\ outT' = MsgMinted
    /\ pcT' = "unlock"
    /\ UNCHANGED <<accounts, pending_transactions, gate, mainVars, history>>

\* `self.chain.push(block)`, the block moves into the chain.
MintPush ==
    /\ pcT = "push"
    /\ chain' = Append(chain, block)
    /\ block' = NoBlock
    /\ idx' = 0
    /\ outT' = MsgMinted
    /\ pcT' = "unlock"
    /\ UNCHANGED <<accounts, pending_transactions, gate, mainVars, history>>

\* End of the loop body in start_minting: the MutexGuard is dropped.
TimerUnlock ==
    /\ pcT = "unlock"
    /\ gate' = "free"
    /\ pcT' = "sleep"
    /\ outT' = MsgNothing
    /\ UNCHANGED <<ledger, mainVars, block, idx, history>>

\* --------------------------------------------------------- specification

Next ==
    \/ MainReadLine
    \/ MainCreateAccount
    \/ MainTransfer
    \/ MainBalance
    \/ MainExit
    \/ MainInvalid
    \/ MainUnlock
    \/ TimerLock
    \/ MintDrain
    \/ MintSkip
    \/ MintApply
    \/ MintPush
    \/ TimerUnlock

Spec == Init /\ [][Next]_vars

\* What the command loop runs between taking the lock and dropping it:
\* straight-line code, no wait in it.
MainLocked ==
    \/ MainCreateAccount
    \/ MainTransfer
    \/ MainBalance
    \/ MainExit
    \/ MainInvalid
    \/ MainUnlock

\* What the minting thread runs between taking the lock and dropping it:
\* mint_block, no wait in it.
TimerLocked ==
    \/ MintDrain
    \/ MintSkip
    \/ MintApply
    \/ MintPush
    \/ TimerUnlock

\* The scheduler keeps running a thread that is not waiting, so the code
\* under the lock runs to its end.  The sleep of the minting thread ends and
\* its lock() is granted when the Mutex is free again and again, which it is
\* each time the command loop goes back to wait for a line.  Nothing makes
\* the user type: MainReadLine has no fairness.
FairSpec ==
    /\ Spec
    /\ WF_vars(MainLocked)
    /\ WF_vars(TimerLocked)
    /\ SF_vars(TimerLock)

\* ------------------------------------------------- vocabulary of the claims

RECURSIVE Flatten(_)
\* The intents of a sequence of Blocks, in order.
Flatten(blocks) ==
    IF blocks = <<>> THEN <<>>
    ELSE Head(blocks).transactions \o Flatten(Tail(blocks))

\* Every intent in history, oldest first.
Confirmed == Flatten(chain)

RECURSIVE Credits(_, _)
\* The sum of the amounts of the intents of txs whose destination is x.
Credits(txs, x) ==
    IF txs = <<>> THEN 0
    ELSE (IF Head(txs).to = x THEN Head(txs).amount ELSE 0)
             + Credits(Tail(txs), x)

RECURSIVE Debits(_, _)
\* The sum of the amounts of the intents of txs whose source is x.
Debits(txs, x) ==
    IF txs = <<>> THEN 0
    ELSE (IF Head(txs).from = Some(x) THEN Head(txs).amount ELSE 0)
             + Debits(Tail(txs), x)

RECURSIVE Sum(_, _)
\* The sum of f over the set S.
Sum(f, S) ==
    IF S = {} THEN 0
    ELSE LET x == CHOOSE y \in S : TRUE IN f[x] + Sum(f, S \ {x})

Balances == [x \in DOMAIN accounts |-> accounts[x].balance]

\* mint_block has drained the queue and not yet pushed the Block.
Confirming == pcT \in {"apply", "push"}

\* The command loop holds the MutexGuard; the minting thread holds it.
MainHolds == pcM \in {"exec", "unlock"}
TimerHolds == pcT \in {"mint", "apply", "push", "unlock"}

\* What x's balance is once exactly the intents of history are applied.
Settled(x) == opening[x] + Credits(Confirmed, x) - Debits(Confirmed, x)

\* The amount a transfer command line asks for.
AmountOf(a) == unwrap_or(parse_i64(a[4]), 0)

\* ------------------------------------------------------------------ C1

\* C1: confirm is atomic for the command loop.  The two threads never hold
\* the gate together, each holds it from its lock to the end of its
\* operation, and whenever the command loop runs an operation no batch is
\* in flight: the Block local is empty and every balance is exactly what the
\* Records of history make it.
C1_ConfirmAtomic ==
    /\ ~(MainHolds /\ TimerHolds)
    /\ MainHolds => gate = "main"
    /\ TimerHolds => gate = "timer"
    /\ MainHolds =>
          /\ ~Confirming
          /\ block = NoBlock
          /\ \A x \in DOMAIN accounts : accounts[x].balance = Settled(x)

\* The command loop is at its prompt while mint_block has applied the first
\* of two drained intents and not the second.
C1_Witness ==
    /\ pcM = "read"
    /\ pcT = "apply"
    /\ idx = 2
    /\ Len(block.transactions) = 2
    /\ accounts[block.transactions[1].to].balance
          # Settled(block.transactions[1].to)

\* ------------------------------------------------------------------ C2

\* C2: a transfer whose amount is <= 0 (an unparsable amount counts as 0) is
\* not queued: the step that runs it leaves the Pending Queue as it was and
\* does not report the transfer as queued.
C2_NonPositiveRejected ==
    [][(pcM = "exec" /\ IsTransfer(args) /\ AmountOf(args) <= 0
            /\ pcM' = "unlock")
          => (pending_transactions' = pending_transactions
                 /\ out'.msg # MsgQueued)]_vars

\* ------------------------------------------------------------------ C3

\* C3: when every account was created with a balance >= 0, no balance is
\* negative in a state that follows a confirmation.  Stated for runs whose
\* queued amounts are all positive, so that it fails by overdraw alone.
C3_NeverNegative ==
    (/\ \A x \in DOMAIN opening : opening[x] >= 0
     /\ \A i \in 1..Len(submitted) : submitted[i].amount > 0
     /\ chain # <<>>
     /\ ~Confirming)
    => \A x \in DOMAIN accounts : accounts[x].balance >= 0

\* ------------------------------------------------------------------ C4

\* The accounts a batch names as source or destination.
Named(txs) ==
    {txs[i].to : i \in 1..Len(txs)}
        \cup {txs[i].from[1] : i \in {j \in 1..Len(txs) : txs[j].from # None}}

\* C4: a confirm of a non-empty batch changes each account's balance by
\* exactly its credits in the batch minus its debits in the batch, and so
\* leaves an account the batch does not name untouched.  Settled(x) is x's
\* balance when mint_block starts (first conjunct); when the loop has run
\* through the batch the balance is Settled(x) plus the batch's net.
C4_ConfirmDelta ==
    \A x \in DOMAIN accounts :
       /\ pcT = "mint" => accounts[x].balance = Settled(x)
       /\ pcT = "push" =>
             /\ block.transactions # <<>>
             /\ accounts[x].balance =
                   Settled(x) + Credits(block.transactions, x)
                              - Debits(block.transactions, x)
             /\ x \notin Named(block.transactions) =>
                   accounts[x].balance = Settled(x)

\* A batch of two intents is fully applied: both credit the same account,
\* which now holds 2 more than when mint_block started.
C4_Witness ==
    /\ pcT = "push"
    /\ Len(block.transactions) = 2
    /\ \E x \in DOMAIN accounts :
          /\ Credits(block.transactions, x) = 2
          /\ Debits(block.transactions, x) = 0
          /\ accounts[x].balance = Settled(x) + 2

\* ------------------------------------------------------------------ C5

\* C5: in every state, also between two iterations of mint_block's loop, the
\* balances add up to the balances the accounts were created with, and every
\* intent queued or in flight names two accounts of the store.
C5_Conservation ==
    /\ Sum(Balances, DOMAIN accounts) = Sum(opening, DOMAIN opening)
    /\ \A i \in 1..Len(pending_transactions) :
          /\ pending_transactions[i].from # None
          /\ pending_transactions[i].from[1] \in DOMAIN accounts
          /\ pending_transactions[i].to \in DOMAIN accounts
    /\ \A i \in 1..Len(block.transactions) :
          /\ block.transactions[i].from # None
          /\ block.transactions[i].from[1] \in DOMAIN accounts
          /\ block.transactions[i].to \in DOMAIN accounts

\* A confirmation has moved money between two accounts.
C5_Witness ==
    /\ chain # <<>>
    /\ \E x \in DOMAIN accounts : accounts[x].balance > opening[x]
    /\ \E x \in DOMAIN accounts : accounts[x].balance < opening[x]

\* ------------------------------------------------------------------ C6

\* C6: a confirm drains exactly what was queued before it took the gate.
\* From the drain on the Pending Queue is empty and history plus the Block
\* being built hold every accepted transfer and nothing else; when the
\* minting thread releases the gate the queue is empty and history alone
\* holds every accepted transfer; and a confirm that finds every accepted
\* transfer already in history finds the queue empty.
C6_DrainExact ==
    /\ Confirming =>
          /\ pending_transactions = <<>>
          /\ Confirmed \o block.transactions = submitted
    /\ pcT = "unlock" =>
          /\ pending_transactions = <<>>
          /\ Confirmed = submitted
    /\ (pcT = "mint" /\ Confirmed = submitted) =>
          ~has_pending(pending_transactions)

\* The minting thread is about to release the gate after minting a Block of
\* two intents.
C6_Witness ==
    /\ pcT = "unlock"
    /\ outT = MsgMinted
    /\ Len(chain[Len(chain)].transactions) = 2

\* ------------------------------------------------------------------ C7

\* C7: a confirm that finds the Pending Queue empty goes straight to the
\* release of the gate and changes neither accounts, history, queue nor the
\* Block local; the release changes none of them either.
C7_EmptyConfirmNoop ==
    [][/\ (pcT = "mint" /\ pending_transactions = <<>> /\ pcT' # pcT)
           => (pcT' = "unlock" /\ outT' = MsgSkipped
                  /\ UNCHANGED <<accounts, chain, pending_transactions, block>>)
       /\ (pcT = "unlock" /\ pcT' # pcT)
           => UNCHANGED <<accounts, chain, pending_transactions, block>>
      ]_vars

\* An empty confirm has just run on a ledger that has accounts and history.
C7_Witness ==
    /\ pcT = "unlock"
    /\ outT = MsgSkipped
    /\ chain # <<>>
    /\ DOMAIN accounts = Ids

\* ------------------------------------------------------------------ C8

\* C8: create_account for an id already in the store reports that the
\* account exists and changes neither the store, the queue nor history.
C8_DuplicateCreate ==
    [][(pcM = "exec" /\ IsCreate(args) /\ args[2] \in DOMAIN accounts
            /\ pcM' # pcM)
          => (out'.msg = MsgExists
                 /\ UNCHANGED <<accounts, pending_transactions, chain>>)]_vars

\* A second create_account, asking for another balance than the account
\* has, was refused while the queue and history were not empty.
C8_Witness ==
    /\ pcM = "unlock"
    /\ IsCreate(args)
    /\ out.msg = MsgExists
    /\ accounts[args[2]].balance # unwrap_or(parse_i64(args[3]), 0)
    /\ pending_transactions # <<>>
    /\ chain # <<>>

\* ------------------------------------------------------------------ C9

\* C9: arrival order is kept.  A step that lengthens the queue appends one
\* intent at its end; the drain gives the Block the queue as it stood, in
\* the same order; iteration idx of the loop changes the balances by the
\* delta of the Block's intent number idx and moves on to idx + 1; the push
\* appends that Block, as built, at the end of history.
C9_Order ==
    [][/\ Len(pending_transactions') > Len(pending_transactions)
           => /\ Len(pending_transactions') = Len(pending_transactions) + 1
              /\ SubSeq(pending_transactions', 1, Len(pending_transactions))
                    = pending_transactions
       /\ (pcT = "mint" /\ pcT' = "apply")
           => (block'.transactions = pending_transactions /\ idx' = 1)
       /\ (pcT = "apply" /\ pcT' # "apply" /\ pcT' # "push") => FALSE
       /\ (pcT = "apply" /\ (pcT' = "apply" \/ pcT' = "push") /\ idx' # idx)
           => /\ idx' = idx + 1
              /\ block' = block
              /\ (pcT' = "push") = (idx = Len(block.transactions))
              /\ \A x \in DOMAIN accounts :
                    accounts'[x].balance - accounts[x].balance
                       = Credits(<<block.transactions[idx]>>, x)
                            - Debits(<<block.transactions[idx]>>, x)
       /\ (pcT = "push" /\ pcT' # pcT)
           => chain' = Append(chain, block)
      ]_vars

\* The loop has applied the first of two different intents that touch the
\* same account and is about to apply the second.
C9_Witness ==
    /\ pcT = "apply"
    /\ idx = 2
    /\ Len(block.transactions) = 2
    /\ block.transactions[1] # block.transactions[2]
    /\ block.transactions[1].to = block.transactions[2].from[1]
    /\ block.transactions[1].amount # 0

\* ----------------------------------------------------------------- C10

\* C10: every accepted transfer is consumed exactly once.  In every state
\* the accepted transfers are, in order, those of history, then those of the
\* Block being built, then those of the queue, so none is in two places or
\* in two Records.  Outside a confirm (no Block being built) the number of
\* accepted transfers is the queue length plus the number of intents in
\* history, and each balance is its opening balance plus the deltas of the
\* intents of history, each counted once.
C10_ExactlyOnce ==
    /\ submitted = Confirmed \o block.transactions \o pending_transactions
    /\ ~Confirming =>
          /\ block.transactions = <<>>
          /\ Len(submitted) = Len(pending_transactions) + Len(Confirmed)
          /\ \A x \in DOMAIN accounts : accounts[x].balance = Settled(x)

\* The same transfer was accepted twice: one copy is in history and applied,
\* the other still waits in the queue.
C10_Witness ==
    /\ Len(chain) = 1
    /\ Len(pending_transactions) = 1
    /\ Confirmed = pending_transactions
    /\ pending_transactions[1].amount # 0
    /\ pending_transactions[1].from # Some(pending_transactions[1].to)
    /\ ~Confirming

\* ----------------------------------------------------------------- C11

\* C11: a transfer whose from or to is not in the store prints the
\* not-found message and leaves accounts, history and queue unchanged,
\* whatever the amount.
C11_UnknownAccount ==
    [][(pcM = "exec" /\ IsTransfer(args) /\ pcM' # pcM
            /\ (args[2] \notin DOMAIN accounts \/ args[3] \notin DOMAIN accounts))
          => (out'.msg = MsgNotFound /\ UNCHANGED ledger)]_vars

\* A transfer the source could pay was refused because the destination does
\* not exist.
C11_Witness ==
    /\ pcM = "unlock"
    /\ IsTransfer(args)
    /\ out.msg = MsgNotFound
    /\ args[2] \in DOMAIN accounts
    /\ args[3] \notin DOMAIN accounts
    /\ AmountOf(args) > 0
    /\ accounts[args[2]].balance >= AmountOf(args)
    /\ pending_transactions = <<>>

\* ----------------------------------------------------------------- C12

\* C12: a transfer between accounts of the store whose amount is above the
\* source's balance prints the insufficient-funds message and leaves
\* accounts, history and queue unchanged, also when from = to.
C12_InsufficientFunds ==
    [][(pcM = "exec" /\ IsTransfer(args) /\ pcM' # pcM
            /\ args[2] \in DOMAIN accounts /\ args[3] \in DOMAIN accounts
            /\ AmountOf(args) > accounts[args[2]].balance)
          => (out'.msg = MsgInsufficient /\ UNCHANGED ledger)]_vars

\* A transfer of an account to itself was refused for lack of funds.
C12_Witness ==
    /\ pcM = "unlock"
    /\ IsTransfer(args)
    /\ out.msg = MsgInsufficient
    /\ args[2] = args[3]
    /\ AmountOf(args) > accounts[args[2]].balance

\* ----------------------------------------------------------------- C13

\* C13: history is append-only.  Every step leaves the chain as it is or
\* appends one Block to it; the step that appends is mint_block's push, the
\* Block it appends is not empty, and every push appends.  A confirm that
\* finds the queue not empty goes on to the loop and from the loop to the
\* push, a confirm that finds it empty goes to the release without a push.
\* So no Block of the chain has an empty transactions list.
C13_AppendOnly ==
    [][/\ \/ chain' = chain
          \/ /\ pcT = "push"
             /\ chain' = chain \o <<chain'[Len(chain')]>>
             /\ chain'[Len(chain')].transactions # <<>>
       /\ (pcT = "push" /\ pcT' # pcT) => Len(chain') = Len(chain) + 1
       /\ (pcT = "mint" /\ pcT' # pcT) =>
             (pcT' = "apply") = (pending_transactions # <<>>)
       /\ (pcT = "mint" /\ pcT' # pcT /\ pending_transactions = <<>>) =>
             pcT' = "unlock"
       /\ (pcT = "apply" /\ pcT' # pcT) => pcT' = "push"
       /\ \A i \in 1..Len(chain') : chain'[i].transactions # <<>>
      ]_vars

\* The chain holds two Blocks, the second just pushed.
C13_Witness ==
    /\ pcT = "unlock"
    /\ outT = MsgMinted
    /\ Len(chain) = 2

\* ----------------------------------------------------------------- C14

\* The tokens name no command, or a command with the wrong number of tokens.
BadShape(a) ==
    \/ Len(a) = 0
    \/ /\ Len(a) > 0
       /\ \/ a[1] \notin {"create-account", "transfer", "balance", "exit"}
          \/ a[1] = "create-account" /\ Len(a) # 3
          \/ a[1] = "transfer" /\ Len(a) # 4
          \/ a[1] = "balance" /\ Len(a) # 2

\* The tokens are a create-account or transfer command whose integer
\* argument does not parse.
BadInteger(a) ==
    /\ Len(a) > 0
    /\ \/ a[1] = "create-account" /\ Len(a) = 3 /\ parse_i64(a[3]) = None
       \/ a[1] = "transfer" /\ Len(a) = 4 /\ parse_i64(a[4]) = None

C15_PerSubmissionCheck ==
    [][(pcM = "exec" /\ IsTransfer(args) /\ pcM' # pcM
            /\ args[2] \in DOMAIN accounts /\ args[3] \in DOMAIN accounts)
          => /\ (out'.msg = MsgQueued)
                   = (accounts[args[2]].balance >= AmountOf(args))
             /\ (Len(pending_transactions') = Len(pending_transactions) + 1)
                   = (accounts[args[2]].balance >= AmountOf(args))
      ]_vars

\* Overdraw: all accounts were opened at >= 0, all queued amounts are > 0,
\* two intents of the same source were confirmed together and their amounts
\* add up to more than the source had, which is now below zero.
C15_Witness ==
    /\ \A x \in DOMAIN opening : opening[x] >= 0
    /\ \A i \in 1..Len(submitted) : submitted[i].amount > 0
    /\ ~Confirming
    /\ Len(chain) = 1
    /\ Len(chain[1].transactions) = 2
    /\ \E x \in DOMAIN accounts :
          /\ chain[1].transactions[1].from = Some(x)
          /\ chain[1].transactions[2].from = Some(x)
          /\ Debits(chain[1].transactions, x) > opening[x]
          /\ accounts[x].balance < 0

\* ----------------------------------------------------------------- C16

\* Both `get_mut(..).unwrap()` of a loop iteration on tx find their account.
LookupsSucceed(tx) ==
    /\ tx.from # None => tx.from[1] \in DOMAIN accounts
    /\ tx.to \in DOMAIN accounts

\* C16: every intent of the Pending Queue, and every intent of the Block
\* mint_block is working on, has a from and a to that are accounts of the
\* store, so the unwraps of the loop never meet a missing account.
C16_EndpointsPresent ==
    /\ \A i \in 1..Len(pending_transactions) :
          /\ pending_transactions[i].from # None
          /\ LookupsSucceed(pending_transactions[i])
    /\ \A i \in 1..Len(block.transactions) :
          /\ block.transactions[i].from # None
          /\ LookupsSucceed(block.transactions[i])
    /\ pcT = "apply" =>
          /\ idx \in 1..Len(block.transactions)
          /\ LookupsSucceed(block.transactions[idx])

\* The loop is about to look up the two different accounts of an intent
\* while another intent between them waits behind it.
C16_Witness ==
    /\ pcT = "apply"
    /\ idx = 1
    /\ Len(block.transactions) = 2
    /\ block.transactions[1].from # Some(block.transactions[1].to)
    /\ DOMAIN accounts = Ids

\* ----------------------------------------------------------------- C17

\* C17: balances change in mint_block's loop only.  A transfer step leaves
\* accounts and history unchanged; when it reports the transfer as queued
\* the queue gains that one intent at its end and otherwise the queue is
\* unchanged.  A balance step leaves accounts, history and queue unchanged
\* and prints the stored balance.  Any step that changes the balance of an
\* account of the store is an iteration of the loop.
C17_OnlyConfirmMutates ==
    [][/\ (pcM = "exec" /\ IsTransfer(args) /\ pcM' # pcM)
           => /\ UNCHANGED <<accounts, chain>>
              /\ pending_transactions' =
                    IF out'.msg = MsgQueued
                    THEN Append(pending_transactions,
                                [from |-> Some(args[2]), to |-> args[3],
                                 amount |-> AmountOf(args)])
                    ELSE pending_transactions
       /\ (pcM = "exec" /\ IsBalance(args) /\ pcM' # pcM)
           => /\ UNCHANGED ledger
              /\ args[2] \in DOMAIN accounts =>
                    out'.balance = Some(accounts[args[2]].balance)
              /\ args[2] \notin DOMAIN accounts =>
                    out'.msg = MsgAccountNotFound
       /\ (\E x \in DOMAIN accounts :
              accounts'[x].balance # accounts[x].balance)
           => pcT = "apply" /\ idx' = idx + 1
      ]_vars

\* A second transfer with a non-zero amount between two accounts has just
\* been queued behind the first.
C17_Witness ==
    /\ pcM = "unlock"
    /\ IsTransfer(args)
    /\ out.msg = MsgQueued
    /\ Len(pending_transactions) = 2
    /\ AmountOf(args) # 0
    /\ args[2] # args[3]

\* ----------------------------------------------------------------- C18

\* C18: with the minting thread scheduled fairly, every transfer reported as
\* queued ends up in a Block of the chain, hence applied: once n transfers
\* are accepted, history comes to hold n intents and the confirm that put
\* them there is over.
C18_EventuallyConfirmed ==
    \A n \in 1..MaxIntents :
       (Len(submitted) >= n) ~> (Len(Confirmed) >= n /\ ~Confirming)

\* A tick found intents in the queue left there after an earlier Block, and
\* has confirmed them: the chain holds two Blocks and the queue is empty.
C18_Witness ==
    /\ Len(chain) = 2
    /\ pending_transactions = <<>>
    /\ Confirmed = submitted
    /\ pcT = "sleep"
    /\ pcM # "done"

\* ----------------------------------------------------------------- C19

\* The gate is held exactly by the thread that is between its lock and its
\* release: not by the command loop waiting for a line (or gone), not by the
\* minting thread asleep.  The holder always has a step to take, and a free
\* gate can be taken by the minting thread.
GateDiscipline ==
    /\ (gate = "main") = MainHolds
    /\ (gate = "timer") = TimerHolds
    /\ pcM \in {"read", "done"} => gate # "main"
    /\ pcT = "sleep" => gate # "timer"
    /\ gate = "main" => ENABLED MainLocked
    /\ gate = "timer" => ENABLED TimerLocked
    /\ gate = "free" => ENABLED TimerLock
    /\ (gate = "free" /\ pcM = "read") => ENABLED MainReadLine

C20_IdsOnlyGrow ==
    [][ /\ DOMAIN accounts \subseteq DOMAIN accounts'
        /\ DOMAIN opening' \subseteq DOMAIN accounts'
        /\ DOMAIN accounts' \subseteq DOMAIN opening'
        /\ \A x \in DOMAIN accounts' : accounts'[x].id = x ]_vars

\* Both accounts were created, a block was minted and it moved a balance
\* away from the one the account was created with.
C20_Witness ==
    /\ DOMAIN opening = Ids
    /\ DOMAIN accounts = Ids
    /\ chain # <<>>
    /\ \E x \in Ids : accounts[x].balance # opening[x]

====
